---- MODULE Spec2Model ----
(***************************************************************************)
(* The update lifecycle of the desktop shell (src-tauri/src/updater.rs):   *)
(* the startup check spawned by setup_updater, the check_for_updates and   *)
(* install_update commands, and the progress closure of the download.      *)
(*                                                                         *)
(* Every invocation is an asynchronous task that suspends at its .await    *)
(* points (sleep, updater.check(), download_and_install()); tasks          *)
(* interleave at those points.  The platform updater and the webview       *)
(* window are the environment: what check() returns, which chunks the      *)
(* download delivers, whether it fails, and whether the main window still  *)
(* exists are chosen nondeterministically.                                 *)
(***************************************************************************)
EXTENDS Integers, Sequences, FiniteSets, TLC

\* ------------------------------------------------------------------ bounds

\* Chunks one download delivers at most, in the progress specification.
MaxChunks == 4

\* Chunks one download delivers at most, in the lifecycle specifications.
LifecycleChunks == 1

\* ------------------------------------------------------- program constants

\* tokio::time::Duration::from_secs(10): the delay before the startup check.
StartupDelay == 10

\* ------------------------------------------------------------ invocations

Scheduler == "sched"
CheckCalls == {"check1", "check2"}
InstallCalls == {"install1", "install2"}
Tasks == {Scheduler} \cup CheckCalls \cup InstallCalls

\* ------------------------------------------------------------ data values

\* Option<T> and Result<T, E> values; every tagged value has the fields
\* tag and val.
None == [tag |-> "None", val |-> "unit"]
Some(v) == [tag |-> "Some", val |-> v]
Ok(v) == [tag |-> "Ok", val |-> v]
Err(e) == [tag |-> "Err", val |-> e]
Pending == [tag |-> "Pending", val |-> "unit"]
Unit == "()"

\* Release dates the platform reports, and their Display rendering.
Dates == {<<2024, 1, 15>>}

DateToString(d) == (<<2024, 1, 15>> :> "2024-01-15 0:00:00.0 +00:00:00")[d]

\* The releases the platform's check() may report: a full record, a bare
\* one (no notes, date or size), and one whose version is the running one.
RNew ==
  [version |-> "2.0.0", current_version |-> "1.5.0", body |-> Some("notes"),
   date |-> Some(<<2024, 1, 15>>), download_size |-> Some(1000)]

RBare ==
  [version |-> "2.0.0", current_version |-> "1.5.0", body |-> None,
   date |-> None, download_size |-> None]

RSame ==
  [version |-> "1.5.0", current_version |-> "1.5.0", body |-> None,
   date |-> None, download_size |-> Some(1000)]

Releases == {RNew, RBare, RSame}

\* Errors of the platform updater, and their Display rendering.
CheckErrors == {[kind |-> "Network"]}
BuildError == [kind |-> "Config"]

to_string(e) ==
  CASE e.kind = "Network" -> "network error"
    [] e.kind = "Download" -> "download failed"
    [] e.kind = "Install" -> "install failed"
    [] e.kind = "Config" -> "updater not configured"

\* What updater.check().await may evaluate to.
CheckResults ==
  {Ok(None)} \cup {Ok(Some(u)) : u \in Releases} \cup {Err(e) : e \in CheckErrors}

\* What the download reports per chunk.
ChunkLengths == {250, 500}
ContentLengths == {None, Some(500), Some(1000)}

\* ------------------------------------------------------------------ state

VARIABLES
  pc,          \* task -> position: idle, sleeping, checking, downloading,
               \*         installing, done
  window,      \* the "main" webview window exists
  checked,     \* task -> what updater.check() returned to it (Pending before)
  result,      \* task -> the value the command returned (Pending before)
  events,      \* task -> the events the task emitted to the window, in order
  update,      \* install task -> its local `update` (Some while downloading)
  downloaded,  \* install task -> its local `downloaded`
  progress,    \* install task -> the percentages its closure computed
  history,     \* install task -> the chunk callbacks it received
  outcome,     \* install task -> what download_and_install returned
  clock,       \* time elapsed since setup_updater, up to StartupDelay
  cancelled    \* install tasks that were downloading when shutdown was
               \* requested

vars ==
  <<pc, window, checked, result, events, update, downloaded, progress,
    history, outcome, clock, cancelled>>

Event(name, payload) == [name |-> name, payload |-> payload]

\* UpdateInfo with version and current_version taken from each other.
UpdateInfoSwapped(u) ==
  [version |-> u.current_version,
   current_version |-> u.version,
   body |-> u.body,
   date |-> IF u.date.tag = "Some" THEN Some(DateToString(u.date.val)) ELSE None]

\* struct UpdateInfo, as both handlers build it from the platform's Update.
UpdateInfo(u) ==
  [version |-> u.version,
   current_version |-> u.current_version,
   body |-> u.body,
   date |-> IF u.date.tag = "Some" THEN Some(DateToString(u.date.val)) ELSE None]

\* if let Some(window) = get_webview_window("main") { let _ = window.emit(..) }
Emit(hasWindow, name, payload) ==
  IF hasWindow THEN <<Event(name, payload)>> ELSE <<>>

Init ==
  /\ pc = [t \in Tasks |-> IF t = Scheduler THEN "sleeping" ELSE "idle"]
  /\ window = TRUE
  /\ checked = [t \in Tasks |-> Pending]
  /\ result = [t \in Tasks |-> Pending]
  /\ events = [t \in Tasks |-> <<>>]
  /\ update = [t \in InstallCalls |-> None]
  /\ downloaded = [t \in InstallCalls |-> 0]
  /\ progress = [t \in InstallCalls |-> <<>>]
  /\ history = [t \in InstallCalls |-> <<>>]
  /\ outcome = [t \in InstallCalls |-> Pending]
  /\ clock = 0
  /\ cancelled = {}

installVars == <<update, downloaded, progress, history, outcome>>

\* ------------------------------------------------------------ environment

\* The main window is closed and destroyed (CloseRequested is not prevented
\* off macOS); get_webview_window("main") returns None from then on.
CloseWindow ==
  /\ window
  /\ window' = FALSE
  /\ UNCHANGED <<clock, cancelled, pc, checked, result, events, installVars>>

\* A unit of time passes while the startup task sleeps.
Tick ==
  /\ pc[Scheduler] = "sleeping"
  /\ clock < StartupDelay
  /\ clock' = clock + 1
  /\ UNCHANGED <<cancelled, pc, window, checked, result, events, installVars>>

\* The hosting process asks to shut down while downloads are running; no
\* handler of the update code observes the request.
RequestCancel ==
  /\ cancelled = {}
  /\ \E t \in InstallCalls : pc[t] = "downloading"
  /\ cancelled' = {t \in InstallCalls : pc[t] = "downloading"}
  /\ UNCHANGED <<clock, pc, window, checked, result, events, installVars>>

\* ------------------------------------------------ setup_updater's task

\* The sleep elapses; handle.updater() is built and check() is awaited, or
\* the builder fails and the task ends without a trace.
SchedWake ==
  /\ pc[Scheduler] = "sleeping"
  /\ clock = StartupDelay
  /\ \E built \in BOOLEAN :
       pc' = [pc EXCEPT ![Scheduler] = IF built THEN "checking" ELSE "done"]
  /\ UNCHANGED <<clock, cancelled, window, checked, result, events, installVars>>

\* The match of the scheduled check: an event only for Ok(Some(update)) with
\* a main window; Ok(None) and Err(e) are logged.
SchedMatch(res, hasWindow) ==
  IF res.tag = "Ok" /\ res.val.tag = "Some"
  THEN Emit(hasWindow, "update-available", UpdateInfo(res.val.val))
  ELSE <<>>

SchedChecked ==
  /\ pc[Scheduler] = "checking"
  /\ \E res \in CheckResults :
       /\ checked' = [checked EXCEPT ![Scheduler] = res]
       /\ events' = [events EXCEPT ![Scheduler] = SchedMatch(res, window)]
  /\ pc' = [pc EXCEPT ![Scheduler] = "done"]
  /\ UNCHANGED <<clock, cancelled, window, result, installVars>>

\* ------------------------------------------------ check_for_updates

\* app.updater() succeeds and check() is awaited, or its error is returned.
CheckInvoke(t) ==
  /\ pc[t] = "idle"
  /\ \E built \in BOOLEAN :
       IF built
       THEN /\ pc' = [pc EXCEPT ![t] = "checking"]
            /\ UNCHANGED result
       ELSE /\ pc' = [pc EXCEPT ![t] = "done"]
            /\ result' = [result EXCEPT ![t] = Err(to_string(BuildError))]
  /\ UNCHANGED <<clock, cancelled, window, checked, events, installVars>>

\* CheckMatch announcing a negative check whether or not a window exists.
CheckMatchNoWindowTest(res, hasWindow) ==
  IF res.tag = "Ok"
  THEN IF res.val.tag = "Some"
       THEN [ret |-> Ok(Some(UpdateInfo(res.val.val))),
             emitted |-> Emit(hasWindow, "update-available",
                              UpdateInfo(res.val.val))]
       ELSE [ret |-> Ok(None),
             emitted |-> Emit(TRUE, "no-update-available", Unit)]
  ELSE [ret |-> Err(to_string(res.val)), emitted |-> <<>>]

\* CheckMatch returning another UpdateInfo than the one it emits.
CheckMatchOtherReturn(res, hasWindow) ==
  IF res.tag = "Ok"
  THEN IF res.val.tag = "Some"
       THEN [ret |-> Ok(Some(UpdateInfoSwapped(res.val.val))),
             emitted |-> Emit(hasWindow, "update-available",
                              UpdateInfo(res.val.val))]
       ELSE [ret |-> Ok(None),
             emitted |-> Emit(hasWindow, "no-update-available", Unit)]
  ELSE [ret |-> Err(to_string(res.val)), emitted |-> <<>>]

\* CheckMatch failing the command when there is no window to emit to.
CheckMatchNeedsWindow(res, hasWindow) ==
  IF ~hasWindow /\ res.tag = "Ok"
  THEN [ret |-> Err("main window not found"), emitted |-> <<>>]
  ELSE IF res.tag = "Ok"
  THEN IF res.val.tag = "Some"
       THEN [ret |-> Ok(Some(UpdateInfo(res.val.val))),
             emitted |-> Emit(hasWindow, "update-available",
                              UpdateInfo(res.val.val))]
       ELSE [ret |-> Ok(None),
             emitted |-> Emit(hasWindow, "no-update-available", Unit)]
  ELSE [ret |-> Err(to_string(res.val)), emitted |-> <<>>]

\* CheckMatch turning a failed check into "no update".
CheckMatchErrAsNone(res, hasWindow) ==
  IF res.tag = "Ok" /\ res.val.tag = "Some"
  THEN [ret |-> Ok(Some(UpdateInfo(res.val.val))),
        emitted |-> Emit(hasWindow, "update-available",
                         UpdateInfo(res.val.val))]
  ELSE [ret |-> Ok(None),
        emitted |-> Emit(hasWindow, "no-update-available", Unit)]

\* The match of check_for_updates: the returned value and the emitted events.
CheckMatch(res, hasWindow) ==
  IF res.tag = "Ok"
  THEN IF res.val.tag = "Some"
       THEN [ret |-> Ok(Some(UpdateInfo(res.val.val))),
             emitted |-> Emit(hasWindow, "update-available",
                              UpdateInfo(res.val.val))]
       ELSE [ret |-> Ok(None),
             emitted |-> Emit(hasWindow, "no-update-available", Unit)]
  ELSE [ret |-> Err(to_string(res.val)), emitted |-> <<>>]

CheckChecked(t) ==
  /\ pc[t] = "checking"
  /\ \E res \in CheckResults :
       /\ checked' = [checked EXCEPT ![t] = res]
       /\ result' = [result EXCEPT ![t] = CheckMatch(res, window).ret]
       /\ events' = [events EXCEPT ![t] = CheckMatch(res, window).emitted]
  /\ pc' = [pc EXCEPT ![t] = "done"]
  /\ UNCHANGED <<clock, cancelled, window, installVars>>

\* ------------------------------------------------ install_update

\* A percentage as the exact quotient num / den: (downloaded / total) * 100.0
\* without the rounding of f64.  The totals enumerated are positive and the
\* byte counts far below 2^64, so neither a division by zero nor a wrap of
\* the u64 accumulator arises.
Percent(bytes, total) == [num |-> bytes * 100, den |-> total]

ZeroPercent == [num |-> 0, den |-> 1]

\* ProgressClosure with `downloaded = chunk_length` in place of `+=`.
ProgressClosureNoSum(dl, total_size, chunk_length, content_length) ==
  [downloaded |-> chunk_length,
   progress |->
     IF content_length.tag = "Some"
     THEN Percent(chunk_length, content_length.val)
     ELSE IF total_size.tag = "Some" THEN Percent(chunk_length, total_size.val)
     ELSE ZeroPercent]

\* The progress closure: adds the chunk to `downloaded` and computes the
\* percentage against content_length, else total_size, else 0.0.
ProgressClosure(dl, total_size, chunk_length, content_length) ==
  LET d == dl + chunk_length
  IN  [downloaded |-> d,
       progress |->
         IF content_length.tag = "Some" THEN Percent(d, content_length.val)
         ELSE IF total_size.tag = "Some" THEN Percent(d, total_size.val)
         ELSE ZeroPercent]

\* app.updater() succeeds and the re-check is awaited, or its error is
\* returned.
InstallInvoke(t) ==
  /\ pc[t] = "idle"
  /\ \E built \in BOOLEAN :
       IF built
       THEN /\ pc' = [pc EXCEPT ![t] = "checking"]
            /\ UNCHANGED result
       ELSE /\ pc' = [pc EXCEPT ![t] = "done"]
            /\ result' = [result EXCEPT ![t] = Err(to_string(BuildError))]
  /\ UNCHANGED <<clock, cancelled, window, checked, events, installVars>>

\* InstallMatch emitting update-download-start twice.
InstallMatchStartTwice(res, hasWindow) ==
  IF res.tag = "Ok"
  THEN IF res.val.tag = "Some"
       THEN [start |-> TRUE, ret |-> Pending,
             emitted |-> Emit(hasWindow, "update-download-start", Unit)
                           \o Emit(hasWindow, "update-download-start", Unit)]
       ELSE [start |-> FALSE, ret |-> Err("No update available"),
             emitted |-> <<>>]
  ELSE [start |-> FALSE, ret |-> Err(to_string(res.val)), emitted |-> <<>>]

\* InstallMatch going on to the download when the re-check found nothing.
InstallMatchAlwaysStart(res, hasWindow) ==
  IF res.tag = "Ok"
  THEN [start |-> TRUE, ret |-> Pending,
        emitted |-> Emit(hasWindow, "update-download-start", Unit)]
  ELSE [start |-> FALSE, ret |-> Err(to_string(res.val)), emitted |-> <<>>]

\* InstallMatch announcing the download before looking at the re-check.
InstallMatchEarlyStart(res, hasWindow) ==
  IF res.tag = "Ok"
  THEN IF res.val.tag = "Some"
       THEN [start |-> TRUE, ret |-> Pending,
             emitted |-> Emit(hasWindow, "update-download-start", Unit)]
       ELSE [start |-> FALSE, ret |-> Err("No update available"),
             emitted |-> Emit(hasWindow, "update-download-start", Unit)]
  ELSE [start |-> FALSE, ret |-> Err(to_string(res.val)),
        emitted |-> Emit(hasWindow, "update-download-start", Unit)]

\* The match of install_update's re-check: whether the download starts, the
\* events emitted before it, and the value returned when it does not start.
InstallMatch(res, hasWindow) ==
  IF res.tag = "Ok"
  THEN IF res.val.tag = "Some"
       THEN [start |-> TRUE, ret |-> Pending,
             emitted |-> Emit(hasWindow, "update-download-start", Unit)]
       ELSE [start |-> FALSE, ret |-> Err("No update available"),
             emitted |-> <<>>]
  ELSE [start |-> FALSE, ret |-> Err(to_string(res.val)), emitted |-> <<>>]

InstallChecked(t) ==
  /\ pc[t] = "checking"
  /\ \E res \in CheckResults :
       LET m == InstallMatch(res, window)
       IN  /\ checked' = [checked EXCEPT ![t] = res]
           /\ events' = [events EXCEPT ![t] = m.emitted]
           /\ result' = [result EXCEPT ![t] = m.ret]
           /\ pc' = [pc EXCEPT ![t] = IF m.start THEN "downloading" ELSE "done"]
           /\ update' = [update EXCEPT ![t] = IF m.start THEN res.val ELSE None]
  /\ downloaded' = [downloaded EXCEPT ![t] = 0]
  /\ UNCHANGED <<clock, cancelled, window, progress, history, outcome>>

\* download_and_install delivers a chunk and calls the progress closure.
OnChunk(t, lens, clens, max) ==
  /\ pc[t] = "downloading"
  /\ Len(history[t]) < max
  /\ \E chunk_length \in lens, content_length \in clens :
       LET c == ProgressClosure(downloaded[t], update[t].val.download_size,
                                chunk_length, content_length)
       IN  /\ downloaded' = [downloaded EXCEPT ![t] = c.downloaded]
           /\ progress' = [progress EXCEPT ![t] = Append(@, c.progress)]
           /\ history' = [history EXCEPT ![t] =
                Append(@, [chunk_length |-> chunk_length,
                           content_length |-> content_length])]
  /\ UNCHANGED <<clock, cancelled, pc, window, checked, result, events, update,
                 outcome>>

\* The stream ends; the completion closure logs and the install step begins.
DownloadFinished(t) ==
  /\ pc[t] = "downloading"
  /\ pc' = [pc EXCEPT ![t] = "installing"]
  /\ UNCHANGED <<clock, cancelled, window, checked, result, events, installVars>>

\* InstallResult without the `?`: the error of the download is dropped.
InstallResultIgnored(r) == Ok(Unit)

\* .await.map_err(|e| e.to_string())?; Ok(())
InstallResult(r) == IF r.tag = "Err" THEN Err(to_string(r.val)) ELSE Ok(Unit)

\* Return that records the failure but never leaves the download.
ReturnStuck(t, r) ==
  /\ outcome' = [outcome EXCEPT ![t] = r]
  /\ result' = [result EXCEPT ![t] = InstallResult(r)]
  /\ pc' = [pc EXCEPT ![t] = IF r.tag = "Err" THEN pc[t] ELSE "done"]
  /\ update' = [update EXCEPT ![t] = None]
  /\ downloaded' = [downloaded EXCEPT ![t] = 0]
  /\ UNCHANGED <<clock, cancelled, window, checked, events, progress, history>>

\* download_and_install returns r; the command returns and drops its locals.
Return(t, r) ==
  /\ outcome' = [outcome EXCEPT ![t] = r]
  /\ result' = [result EXCEPT ![t] = InstallResult(r)]
  /\ pc' = [pc EXCEPT ![t] = "done"]
  /\ update' = [update EXCEPT ![t] = None]
  /\ downloaded' = [downloaded EXCEPT ![t] = 0]
  /\ UNCHANGED <<clock, cancelled, window, checked, events, progress, history>>

\* The transfer is interrupted between chunks.
DownloadFailed(t) ==
  /\ pc[t] = "downloading"
  /\ Return(t, Err([kind |-> "Download"]))

\* The platform install step succeeds or fails.
Installed(t) ==
  /\ pc[t] = "installing"
  /\ \E r \in {Ok(Unit), Err([kind |-> "Install"])} : Return(t, r)

\* ---------------------------------------------------------- specifications

\* The lifecycle: the scheduled check, two manual checks and one install.
Next ==
  \/ CloseWindow
  \/ Tick
  \/ SchedWake
  \/ SchedChecked
  \/ \E t \in CheckCalls : CheckInvoke(t)
  \/ \E t \in CheckCalls : CheckChecked(t)
  \/ InstallInvoke("install1")
  \/ InstallChecked("install1")
  \/ OnChunk("install1", {250}, {Some(1000)}, LifecycleChunks)
  \/ DownloadFinished("install1")
  \/ DownloadFailed("install1")
  \/ Installed("install1")

Spec == Init /\ [][Next]_vars

\* Two install_update invocations side by side.
NextInstall ==
  \/ CloseWindow
  \/ RequestCancel
  \/ \E t \in InstallCalls : InstallInvoke(t)
  \/ \E t \in InstallCalls : InstallChecked(t)
  \/ \E t \in InstallCalls : OnChunk(t, {250}, {Some(1000)}, LifecycleChunks)
  \/ \E t \in InstallCalls : DownloadFinished(t)
  \/ \E t \in InstallCalls : DownloadFailed(t)
  \/ \E t \in InstallCalls : Installed(t)

SpecInstall == Init /\ [][NextInstall]_vars

\* One download under every chunk sequence of the enumerated callbacks.
NextProgress ==
  \/ InstallInvoke("install1")
  \/ InstallChecked("install1")
  \/ OnChunk("install1", ChunkLengths, ContentLengths, MaxChunks)
  \/ DownloadFinished("install1")
  \/ DownloadFailed("install1")
  \/ Installed("install1")

SpecProgress == Init /\ [][NextProgress]_vars

\* Two install_update invocations and a check_for_updates, in any order.
NextRetry ==
  \/ CheckInvoke("check1")
  \/ CheckChecked("check1")
  \/ \E t \in InstallCalls : InstallInvoke(t)
  \/ \E t \in InstallCalls : InstallChecked(t)
  \/ \E t \in InstallCalls : OnChunk(t, {250}, {Some(1000)}, LifecycleChunks)
  \/ \E t \in InstallCalls : DownloadFinished(t)
  \/ \E t \in InstallCalls : DownloadFailed(t)
  \/ \E t \in InstallCalls : Installed(t)

SpecRetry == Init /\ [][NextRetry]_vars

\* ------------------------------------------------------------- properties

CheckTasks == {Scheduler} \cup CheckCalls

Names(seq) == {seq[i].name : i \in 1..Len(seq)}

Checking(t) == pc[t] = "checking"

Downloading(t) == pc[t] \in {"downloading", "installing"}

\* C1: while one check or one download is in flight, no other invocation is
\* inside the platform's check(): a task at check() has no other task at
\* check() or in download_and_install beside it.
C1_SingleCheckInFlight ==
  \A t, u \in Tasks :
    (t # u /\ Checking(t)) => ~(Checking(u) \/ Downloading(u))

\* C2: at most one download_and_install is running: no two install_update
\* invocations are in their download at once.
C2_SingleDownload ==
  \A t, u \in InstallCalls : (t # u /\ Downloading(t)) => ~Downloading(u)

\* p <= q, p = k and 0 <= p <= 100 on exact quotients (denominators positive).
PercentLeq(p, q) == p.num * q.den <= q.num * p.den

PercentIs(p, k) == p.num = k * p.den

\* C3: within one download the percentages computed on successive chunks
\* never decrease.
C3_ProgressMonotone ==
  \A t \in InstallCalls :
    \A k \in 1..(Len(progress[t]) - 1) :
      PercentLeq(progress[t][k], progress[t][k + 1])

RECURSIVE BytesThrough(_, _)
\* The sum of the lengths of the first k chunks of a callback history.
BytesThrough(h, k) ==
  IF k = 0 THEN 0 ELSE BytesThrough(h, k - 1) + h[k].chunk_length

\* The total the k-th tick is measured against: the stream's content length
\* if reported with that chunk, otherwise the size the release advertised.
TotalBytes(t, k) ==
  IF history[t][k].content_length.tag = "Some"
  THEN history[t][k].content_length
  ELSE checked[t].val.val.download_size

UniformDownload(t, n, len, total) ==
  /\ Len(history[t]) = n
  /\ \A k \in 1..n :
       /\ history[t][k].chunk_length = len
       /\ TotalBytes(t, k) = Some(total)

\* C4: one percentage per chunk, equal to 100 * (sum of the chunk lengths so
\* far) / total with total the content length if present and otherwise the
\* advertised download size, and equal to 0 when neither is known; four
\* chunks of 250 against a total of 1000 give 25, 50, 75, 100.
C4_PercentFormula ==
  \A t \in InstallCalls :
    /\ Len(progress[t]) = Len(history[t])
    /\ \A k \in 1..Len(progress[t]) :
         IF TotalBytes(t, k).tag = "Some"
         THEN progress[t][k].num * TotalBytes(t, k).val
                = 100 * BytesThrough(history[t], k) * progress[t][k].den
         ELSE PercentIs(progress[t][k], 0)
    /\ UniformDownload(t, 4, 250, 1000) =>
         \A k \in 1..4 : PercentIs(progress[t][k], 25 * k)

C4_Witness ==
  \E t \in InstallCalls :
    /\ pc[t] = "done"
    /\ UniformDownload(t, 4, 250, 1000)
    /\ history[t][1].content_length = None
    /\ history[t][4].content_length = Some(1000)
    /\ PercentIs(progress[t][4], 100)

\* C5: every percentage computed during a download lies in 0..100.
C5_ProgressInRange ==
  \A t \in InstallCalls :
    \A k \in 1..Len(progress[t]) :
      /\ PercentLeq(ZeroPercent, progress[t][k])
      /\ PercentLeq(progress[t][k], [num |-> 100, den |-> 1])

\* The check of t has just completed, with res.
CheckCompletes(t, res) ==
  /\ pc[t] = "checking"
  /\ pc'[t] # "checking"
  /\ checked'[t] = res

C7_NoUpdate ==
  [][\A t \in CheckTasks :
       CheckCompletes(t, Ok(None)) =>
         /\ pc'[t] = "done"
         /\ "update-available" \notin Names(events'[t])
         /\ t \in CheckCalls =>
              /\ result'[t] = Ok(None)
              /\ events'[t] =
                   IF window THEN <<Event("no-update-available", Unit)>>
                   ELSE <<>>
         /\ t = Scheduler => events'[t] = <<>>
    ]_vars

C7_Witness ==
  /\ pc[Scheduler] = "done"
  /\ checked[Scheduler] = Ok(None)
  /\ \E t \in CheckCalls :
       /\ checked[t] = Ok(None)
       /\ events[t] = <<Event("no-update-available", Unit)>>
  /\ \E t \in CheckCalls :
       /\ checked[t] = Ok(None)
       /\ events[t] = <<>>

\* C7 as first stated: every completed check that returned None, scheduled
\* or manual, has emitted exactly one no-update-available.
C7_NoUpdateAlwaysAnnounced ==
  \A t \in CheckTasks :
    (pc[t] = "done" /\ checked[t] = Ok(None)) =>
      events[t] = <<Event("no-update-available", Unit)>>

\* C8: a release whose version equals current_version is never treated as
\* available: no update-available carries it, check_for_updates does not
\* return it as Some, and no download starts for it.
C8_EqualVersionRejected ==
  \A t \in Tasks :
    /\ \A k \in 1..Len(events[t]) :
         events[t][k].name = "update-available" =>
           events[t][k].payload.version # events[t][k].payload.current_version
    /\ (t \in CheckCalls /\ result[t].tag = "Ok" /\ result[t].val.tag = "Some")
         => result[t].val.val.version # result[t].val.val.current_version
    /\ (t \in InstallCalls /\ update[t].tag = "Some")
         => update[t].val.version # update[t].val.current_version

\* The download of install task t has begun.
Started(t) == checked[t].tag = "Ok" /\ checked[t].val.tag = "Some"

TerminalEvents == {"update-installed", "update-failed"}

FailedPartway(t) ==
  /\ outcome[t].tag = "Err"
  /\ outcome[t].val.kind = "Download"
  /\ Len(history[t]) >= 1

C12_ScheduledCheckGuarded ==
  [][/\ (pc[Scheduler] = "sleeping" /\ pc'[Scheduler] = "checking") =>
          /\ clock = StartupDelay
          /\ \A t \in CheckCalls : ~Checking(t)
     /\ pc[Scheduler] # "sleeping" => pc'[Scheduler] # "sleeping"
     /\ pc[Scheduler] = "done" => pc'[Scheduler] = "done"
    ]_vars

\* C13: with a main window, every percentage the closure computes has been
\* emitted as update-download-progress, the final 100 of a completed
\* download among them.
C13_ProgressEmitted ==
  \A t \in InstallCalls :
    window =>
      \A k \in 1..Len(progress[t]) :
        \E j \in 1..Len(events[t]) :
          /\ events[t][j].name = "update-download-progress"
          /\ events[t][j].payload = progress[t][k]

\* Nothing of a download has happened for install task t.
NoDownload(t) ==
  /\ ~Downloading(t)
  /\ events[t] = <<>>
  /\ history[t] = <<>>
  /\ progress[t] = <<>>
  /\ outcome[t].tag = "Pending"

\* C14: install_update downloads only after its own check, and only the
\* release that check returned; when the check returns None it returns
\* Err("No update available"), when the check fails it returns that error,
\* and in both cases nothing of a download happens.
C14_RecheckBeforeInstall ==
  \A t \in InstallCalls :
    /\ ~NoDownload(t) => Started(t)
    /\ Downloading(t) => (Started(t) /\ update[t] = checked[t].val)
    /\ (checked[t].tag = "Ok" /\ checked[t].val.tag = "None") =>
         /\ pc[t] = "done"
         /\ result[t] = Err("No update available")
         /\ NoDownload(t)
    /\ checked[t].tag = "Err" =>
         /\ pc[t] = "done"
         /\ result[t] = Err(to_string(checked[t].val))
         /\ NoDownload(t)

C14_Witness ==
  \E t, u \in InstallCalls :
    /\ checked[t] = Ok(None)
    /\ result[t] = Err("No update available")
    /\ pc[u] = "installing"
    /\ update[u] = Some(RNew)

\* C15: emitting decides nothing.  What a check_for_updates, an
\* install_update or the scheduled check returns and where it goes next
\* follows from the check result alone, with or without a main window; two
\* check_for_updates with the same check result return the same value; an
\* invocation's events change only in the step that emits them, and without a
\* window nothing is emitted then or later.
C15_EmitNeverAlters ==
  [][/\ \A t \in Tasks, res \in CheckResults :
          CheckCompletes(t, res) =>
            LET found == res.tag = "Ok" /\ res.val.tag = "Some"
            IN  /\ pc'[t] =
                     IF t \in InstallCalls /\ found THEN "downloading" ELSE "done"
                /\ result'[t].tag =
                     IF t = Scheduler \/ (t \in InstallCalls /\ found)
                     THEN "Pending"
                     ELSE IF t \in CheckCalls /\ res.tag = "Ok" THEN "Ok"
                     ELSE "Err"
                /\ (t \in CheckCalls /\ res.tag = "Ok") =>
                     result'[t].val.tag = res.val.tag
     /\ \A t, u \in CheckCalls :
          (pc'[t] = "done" /\ pc'[u] = "done" /\ checked'[t] = checked'[u]) =>
            result'[t] = result'[u]
     /\ \A t \in Tasks : events'[t] # events[t] => (Checking(t) /\ window)
    ]_vars

C15_Witness ==
  /\ checked["check1"] = Ok(Some(RNew))
  /\ checked["check2"] = Ok(Some(RNew))
  /\ Len(events["check1"]) = 1
  /\ events["check2"] = <<>>
  /\ result["check1"] = result["check2"]
  /\ pc["install1"] = "installing"
  /\ events["install1"] = <<>>
  /\ checked[Scheduler] = Ok(Some(RNew))
  /\ events[Scheduler] = <<>>

\* The steps an invocation can take from one position to the next.
Edges ==
  {<<"sleeping", "checking">>, <<"sleeping", "done">>,
   <<"idle", "checking">>, <<"idle", "done">>,
   <<"checking", "downloading">>, <<"checking", "done">>,
   <<"downloading", "installing">>, <<"downloading", "done">>,
   <<"installing", "done">>}

\* C16: every invocation moves only along not-invoked -> checking ->
\* {downloading, done} and downloading -> installing -> done, a failure
\* leading to done from anywhere; a download begins only in an install_update,
\* straight from that invocation's own check having found a release.
C16_InvocationEdges ==
  [][\A t \in Tasks :
       /\ pc'[t] # pc[t] => <<pc[t], pc'[t]>> \in Edges
       /\ Downloading(t)' =>
            /\ t \in InstallCalls
            /\ Started(t)'
            /\ update'[t] = checked'[t].val
    ]_vars

C16_Witness ==
  /\ pc["install1"] = "installing"
  /\ \A c \in CheckTasks : checked[c].tag = "Pending"

\* C16 as first stated: a download runs only after a check, scheduled or
\* manual, has found a release before it; install_update on its own does not
\* download.
C16_DownloadNeedsPriorCheck ==
  \A t \in InstallCalls :
    Downloading(t) =>
      \E c \in CheckTasks :
        checked[c].tag = "Ok" /\ checked[c].val.tag = "Some"

\* C17: a download that was running when shutdown was requested never
\* reaches the install step and ends failed with the error Cancelled.
C17_CancelHonoured ==
  \A t \in cancelled :
    /\ pc[t] # "installing"
    /\ pc[t] = "done" =>
         /\ outcome[t].tag = "Err"
         /\ outcome[t].val.kind = "Cancelled"

\* How many of the events of a sequence carry the name.
CountNamed(seq, name) == Cardinality({k \in 1..Len(seq) : seq[k].name = name})

\* C18: an install_update emits update-download-start at most once, in the
\* step in which its re-check returns a release and so before any chunk is
\* delivered and before the download ends; it emits nothing when the re-check
\* returns None or fails; chunks and the end of the download come only after
\* that step.
C18_StartFirst ==
  [][\A t \in InstallCalls :
       /\ CountNamed(events'[t], "update-download-start") <= 1
       /\ events'[t] # events[t] =>
            /\ events'[t] = <<Event("update-download-start", Unit)>>
            /\ Checking(t)
            /\ Started(t)'
            /\ history'[t] = <<>>
            /\ progress'[t] = <<>>
            /\ outcome'[t].tag = "Pending"
       /\ (checked'[t].tag = "Err"
             \/ (checked'[t].tag = "Ok" /\ checked'[t].val.tag = "None")) =>
            events'[t] = <<>>
       /\ (history'[t] # history[t] \/ outcome'[t] # outcome[t]) =>
            (Downloading(t) /\ events'[t] = events[t])
    ]_vars

C18_Witness ==
  \E t, u \in InstallCalls :
    /\ pc[t] = "done"
    /\ events[t] = <<Event("update-download-start", Unit)>>
    /\ Len(history[t]) >= 1
    /\ outcome[t].tag = "Ok"
    /\ checked[u] = Ok(None)
    /\ events[u] = <<>>

\* C19: when a check_for_updates returns, what it returns and what it emitted
\* agree: at most one event, never both kinds; update-available only with
\* Ok(Some(info)) and info the payload; no-update-available only with
\* Ok(None); nothing with an error; and with a main window Ok(Some) always
\* comes with update-available and Ok(None) with no-update-available.
C19_ReturnMatchesEvent ==
  [][\A t \in CheckCalls :
       (pc[t] # "done" /\ pc'[t] = "done") =>
         LET r == result'[t]
             ev == events'[t]
         IN  /\ Len(ev) <= 1
             /\ r.tag \in {"Ok", "Err"}
             /\ r.tag = "Err" => ev = <<>>
             /\ "update-available" \in Names(ev) => r = Ok(Some(ev[1].payload))
             /\ "no-update-available" \in Names(ev) => r = Ok(None)
             /\ Names(ev) \subseteq {"update-available", "no-update-available"}
             /\ (window /\ r.tag = "Ok") =>
                  Names(ev) = {IF r.val.tag = "Some" THEN "update-available"
                               ELSE "no-update-available"}
    ]_vars

C19_Witness ==
  /\ checked["check1"] = Ok(Some(RNew))
  /\ Len(events["check1"]) = 1
  /\ result["check1"] = Ok(Some(events["check1"][1].payload))
  /\ checked["check2"].tag = "Err"
  /\ result["check2"] = Err("network error")
  /\ events["check2"] = <<>>

====
